---- MODULE Spec2Model ----
(***************************************************************************)
(* Model of class Scheduler (Scheduler/Scheduler.h): one boost::asio       *)
(* io_service run by one dedicated thread, one-shot deadline timers whose  *)
(* completion handlers invoke the user's callback, and the destruction     *)
(* path (stop, join, member destruction).  The callbacks are those of      *)
(* main.cpp (OnTimer, Model::OnTimer) plus a callback that throws.         *)
(***************************************************************************)
EXTENDS Integers, Sequences, FiniteSets, TLC

\* ---- bounds of the model ------------------------------------------------
MaxTime   == 2          \* clock ticks
MaxN      == 1          \* largest counter first passed to Model::OnTimer
MaxFaults == 1          \* runtime failures injected over one run

Clients   == {"main", "worker"}   \* threads that call ScheduleTimer, once each
Ids       == {1, 2}
Durations == {0, 1}
Kinds     == {"OnTimer", "ModelOnTimer", "Throwing"}
Faults    == {"create", "arm"}

VARIABLES
    now,                \* the clock deadline_timer reads
    timers,             \* every deadline_timer created so far, with its handler
    stopped,            \* io_service_: the stopped flag set by stop()
    io_service_thread_, \* position of the thread running Service()
    exitWhy,            \* how Service() left run()
    dtor,               \* position of ~Scheduler and of the member destruction
    cerr,               \* lines written to std::cerr
    escaped,            \* exceptions that left a ScheduleTimer call
    faults,             \* runtime failures injected so far
    crashed,            \* the thread used io_service_ after its destruction
    overwritten         \* client threads that, since their call, have changed
                        \* the variables they passed to it

vars == <<now, timers, stopped, io_service_thread_, exitWhy, dtor, cerr,
          escaped, faults, crashed, overwritten>>

\* uint8_t n of Model::OnTimer: the int argument is converted on the call
ToUint8(x) == x % 256

\* a timer that ignores its duration
ExpiryAtOnce(t, d) == t

\* deadline_timer(io_service_, milliseconds(duration)): expiry is relative to now
Expiry(t, d) == t + d

\* id and n are the handler's copies of timer_id and callback_args, got is
\* what the callback was called with;
\* dueAt: the time from which the wait can complete, its expiry or, where the
\* wait is registered only after that, the time of its registration
Timer(by, id, dur, kind, n, parent, st) ==
    [by |-> by, id |-> id, dur |-> dur, sched |-> now, expiry |-> Expiry(now, dur),
     kind |-> kind, n |-> n, parent |-> parent, state |-> st, pc |-> "wait",
     calls |-> 0, firedAt |-> -1, firedIn |-> "none",
     dueAt |-> Expiry(now, dur), got |-> [id |-> -1, n |-> -1]]

Init ==
    /\ now = 0
    /\ timers = <<>>
    /\ stopped = FALSE
    /\ io_service_thread_ = "starting"
    /\ exitWhy = "none"
    /\ dtor = "alive"
    /\ cerr = <<>>
    /\ escaped = 0
    /\ faults = 0
    /\ crashed = FALSE
    /\ overwritten = {}

Pending == {i \in DOMAIN timers : timers[i].state = "Pending"}
Running == {i \in DOMAIN timers : timers[i].pc \in {"body", "end"}}

\* a client thread inside ScheduleTimer, between line 87 and line 91
InCall == {i \in DOMAIN timers : timers[i].state = "Created"}

\* the client thread has made its call
HasCalled(c) == \E i \in DOMAIN timers : timers[i].by = c

\* identifiers are opaque: a call uses one already in use or the next fresh one
UsedIds == {timers[i].id : i \in DOMAIN timers}
IdChoice == {id \in Ids : \A k \in Ids : k < id => k \in UsedIds}

\* ---- the reactor ----------------------------------------------------------
\* a reactor that starts a handler while another one is running
CanDispatchOverlapping ==
    /\ io_service_thread_ = "run"
    /\ ~stopped

\* io_service_.run() on the single thread of the constructor: a handler is
\* started only by that thread, between handlers, and not once stopped
CanDispatch ==
    /\ io_service_thread_ = "run"
    /\ Running = {}
    /\ ~stopped

\* a timer queue without an order: any expired wait may complete next
ReadyAnyExpired(i) ==
    /\ i \in Pending
    /\ now >= timers[i].expiry

\* the timer queue hands out expired waits, earliest expiry first; a wait
\* registered only once timer i had expired may have missed the poll that
\* collected i, and then completes after it
Ready(i) ==
    /\ i \in Pending
    /\ now >= timers[i].expiry
    /\ \A j \in Pending :
          \/ timers[j].expiry >= timers[i].expiry
          \/ timers[j].dueAt >= timers[i].expiry

\* a wait that stays queued after its handler has been started
CompleteStaysQueued(tm, st) == tm

\* the wait of a deadline_timer completes once: its handler leaves the queue
Complete(tm, st) == [tm EXCEPT !.state = st]

\* a destructor that does not stop the io_service
AfterNoStop(s) == s

\* the flag after io_service_.stop()
AfterStop(s) == TRUE

\* a run() that clears the flag when it is entered
StoppedOnEntryReset(s) == FALSE

\* run() entered with the flag already set returns at once: the flag persists
StoppedOnEntry(s) == s

\* the thread touches io_service_ : it must still exist
Touch == crashed' = (crashed \/ dtor = "destroyed")

\* catch in Service(): the exception is logged and Service() returns
ServiceCatch ==
    /\ cerr' = Append(cerr, [msg |-> "service", id |-> 0])
    /\ io_service_thread_' = "exited"
    /\ exitWhy' = "exception"

\* Scheduler(): io_service_thread_([this] { Service(); }); Service() enters run()
Service ==
    /\ io_service_thread_ = "starting"
    /\ stopped' = StoppedOnEntry(stopped)
    /\ IF stopped'
       THEN io_service_thread_' = "exited" /\ exitWhy' = "stopped_before_run"
       ELSE io_service_thread_' = "run" /\ exitWhy' = exitWhy
    /\ Touch
    /\ UNCHANGED <<overwritten, now, timers, dtor, cerr, escaped, faults>>

\* run() returns because the io_service was stopped
RunReturns ==
    /\ io_service_thread_ = "run"
    /\ Running = {}
    /\ stopped
    /\ io_service_thread_' = "exited"
    /\ exitWhy' = "stopped"
    /\ Touch
    /\ UNCHANGED <<overwritten, now, timers, stopped, dtor, cerr, escaped, faults>>

\* ---- ScheduleTimer (1), lines 84-103 -------------------------------------
\* the outcome of one call by thread by: parent = 0 for a call of a client
\* thread, parent = i for a call made by the callback of timer i
\* a registration that is not serialized with the other threads' calls: it
\* takes the place of the timer of a call that is under way
ScheduledOverwrites(by, parent, id, dur, kind, n, fault) ==
    IF InCall # {}
    THEN [timers EXCEPT ![CHOOSE k \in InCall : TRUE] =
              Timer(by, id, dur, kind, n, parent, "Pending")]
    ELSE Append(timers, Timer(by, id, dur, kind, n, parent, "Pending"))

\* a scheduler that keys its timers by id: a new timer takes the place of
\* the pending one with its id
ScheduledKeyedById(by, parent, id, dur, kind, n, fault) ==
    Append([k \in DOMAIN timers |->
                IF timers[k].state = "Pending" /\ timers[k].id = id
                THEN [timers[k] EXCEPT !.state = "Abandoned"]
                ELSE timers[k]],
           Timer(by, id, dur, kind, n, parent, "Pending"))

Scheduled(by, parent, id, dur, kind, n, fault) ==
    CASE fault = "none" ->
            Append(timers, Timer(by, id, dur, kind, n, parent, "Pending"))
      [] fault = "arm" ->
            Append(timers, Timer(by, id, dur, kind, n, parent, "Dropped"))
      [] OTHER -> timers

ScheduleLogNothing(id, fault) == cerr

\* the catch of lines 100-102: "error scheduling timer (id = ...)"
ScheduleLog(id, fault) ==
    IF fault = "arm"
    THEN Append(cerr, [msg |-> "scheduling", id |-> id])
    ELSE cerr

\* make_shared (line 87) is outside the try block: its exception leaves the call
Escapes(fault) == fault = "create"

\* a client thread enters ScheduleTimer: line 87 creates the timer, whose
\* expiry is fixed here; the wait is not registered yet
ScheduleTimer ==
    /\ dtor = "alive"
    /\ \E c \in Clients, id \in IdChoice, dur \in Durations, kind \in Kinds,
          n \in 0..MaxN :
        /\ ~HasCalled(c)
        /\ kind # "ModelOnTimer" => n = 0
        /\ timers' = Append(timers, Timer(c, id, dur, kind, n, 0, "Created"))
    /\ UNCHANGED <<overwritten, now, stopped, io_service_thread_, exitWhy, dtor, cerr,
                   escaped, faults, crashed>>

\* the wait is registered with the io_service, under its lock
\* a registration that runs the action on the spot when the timer has
\* expired already
RegisterRunsExpired(tm) ==
    IF now >= tm.expiry
    THEN [tm EXCEPT !.state = "Fired", !.calls = 1, !.pc = "done",
                    !.firedAt = now, !.firedIn = dtor,
                    !.got = [id |-> tm.id, n |-> tm.n]]
    ELSE [tm EXCEPT !.state = "Pending"]

Register(tm) ==
    [tm EXCEPT !.state = "Pending",
               !.dueAt = IF now > tm.expiry THEN now ELSE tm.expiry]

\* the client thread goes on: line 91 registers the wait and the call returns
AsyncWait(i) ==
    /\ i \in InCall
    /\ timers' = [timers EXCEPT ![i] = Register(@)]
    /\ UNCHANGED <<overwritten, now, stopped, io_service_thread_, exitWhy, dtor, cerr,
                   escaped, faults, crashed>>

\* the call of a client thread when make_shared (line 87) throws
ScheduleTimerFails ==
    /\ dtor = "alive"
    /\ faults < MaxFaults
    /\ \E c \in Clients, id \in IdChoice, dur \in Durations, kind \in Kinds,
          n \in 0..MaxN :
        /\ ~HasCalled(c)
        /\ kind # "ModelOnTimer" => n = 0
        /\ timers' = Scheduled(c, 0, id, dur, kind, n, "create")
        /\ cerr' = ScheduleLog(id, "create")
        /\ escaped' = IF Escapes("create") THEN escaped + 1 ELSE escaped
    /\ faults' = faults + 1
    /\ UNCHANGED <<overwritten, now, stopped, io_service_thread_, exitWhy, dtor, crashed>>

\* the call of a client thread when async_wait (line 91) throws: lines 100-102
AsyncWaitFails(i) ==
    /\ i \in InCall
    /\ faults < MaxFaults
    /\ faults' = faults + 1
    /\ timers' = [timers EXCEPT ![i].state = "Dropped"]
    /\ cerr' = ScheduleLog(timers[i].id, "arm")
    /\ UNCHANGED <<overwritten, now, stopped, io_service_thread_, exitWhy, dtor, escaped,
                   crashed>>

\* ---- the completion handler, lines 91-99 ---------------------------------
\* e is clear: callback(timer_id, callback_args...) is entered
\* a handler that holds references to the caller's variables
ReceivedByReference(tm) ==
    [id |-> tm.id, n |-> IF tm.by \in overwritten THEN tm.n + 1 ELSE tm.n]

\* line 97: callback(timer_id, callback_args...) with the copies captured
\* at line 91
Received(tm) == [id |-> tm.id, n |-> tm.n]

Expire(i) ==
    /\ CanDispatch
    /\ Ready(i)
    /\ timers' = [timers EXCEPT ![i] =
                    [Complete(@, "Fired") EXCEPT !.pc = "body",
                                                 !.calls = @ + 1,
                                                 !.firedAt = now,
                                                 !.firedIn = dtor,
                                                 !.got = Received(timers[i])]]
    /\ Touch
    /\ UNCHANGED <<overwritten, now, stopped, io_service_thread_, exitWhy, dtor, cerr,
                   escaped, faults>>

\* e is set: the error is logged with the timer id, the callback is not called
WaitError(i) ==
    /\ CanDispatch
    /\ i \in Pending
    /\ faults < MaxFaults
    /\ faults' = faults + 1
    /\ timers' = [timers EXCEPT ![i] = [Complete(@, "Failed") EXCEPT !.pc = "done"]]
    /\ cerr' = Append(cerr, [msg |-> "waiting", id |-> timers[i].id])
    /\ Touch
    /\ UNCHANGED <<overwritten, now, stopped, io_service_thread_, exitWhy, dtor, escaped>>

\* ---- the callbacks of main.cpp -------------------------------------------
\* Model::OnTimer (lines 90-98) with n > 0: re-arms itself through
\* ScheduleTimer (2), which delegates to (1)
\* a callback that stops re-arming one round early
ReArmsOneLess(tm) == tm.kind = "ModelOnTimer" /\ ToUint8(tm.n) > 1

ReArms(tm) == tm.kind = "ModelOnTimer" /\ ToUint8(tm.n) > 0

OnTimerReArm(i) ==
    /\ i \in Running
    /\ timers[i].pc = "body"
    /\ ReArms(timers[i])
    /\ LET tm == timers[i]
           ts == Scheduled("io_service_thread_", i, tm.id, tm.dur, tm.kind,
                            ToUint8(tm.n) - 1, "none")
       IN  timers' = [ts EXCEPT ![i].pc = "end"]
    /\ Touch
    /\ UNCHANGED <<overwritten, now, stopped, io_service_thread_, exitWhy, dtor, cerr,
                   escaped, faults>>

\* the same re-arm when make_shared or async_wait throws
OnTimerReArmFails(i) ==
    /\ i \in Running
    /\ timers[i].pc = "body"
    /\ ReArms(timers[i])
    /\ faults < MaxFaults
    /\ faults' = faults + 1
    /\ \E fault \in Faults :
        /\ LET tm == timers[i]
               ts == Scheduled("io_service_thread_", i, tm.id, tm.dur, tm.kind,
                            ToUint8(tm.n) - 1, fault)
           IN  timers' = [ts EXCEPT ![i].pc = IF Escapes(fault) THEN "done" ELSE "end"]
        /\ IF Escapes(fault)
           THEN /\ escaped' = escaped + 1
                /\ ServiceCatch
           ELSE /\ escaped' = escaped
                /\ cerr' = ScheduleLog(timers[i].id, fault)
                /\ UNCHANGED <<io_service_thread_, exitWhy>>
    /\ Touch
    /\ UNCHANGED <<overwritten, now, stopped, dtor>>

\* the callback returns and with it the handler
OnTimerReturn(i) ==
    /\ i \in Running
    /\ timers[i].kind # "Throwing"
    /\ timers[i].pc = "body" => ~ReArms(timers[i])
    /\ timers' = [timers EXCEPT ![i].pc = "done"]
    /\ Touch
    /\ UNCHANGED <<overwritten, now, stopped, io_service_thread_, exitWhy, dtor, cerr,
                   escaped, faults>>

\* the callback throws: the exception leaves run() and is caught in Service()
OnTimerThrows(i) ==
    /\ i \in Running
    /\ timers[i].kind = "Throwing"
    /\ timers' = [timers EXCEPT ![i].pc = "done"]
    /\ ServiceCatch
    /\ Touch
    /\ UNCHANGED <<overwritten, now, stopped, dtor, escaped, faults>>

\* ---- ~Scheduler, lines 62-71, and the member destruction, lines 151-161 --
\* the owner destroys the scheduler; no other thread is inside a call then
Destructor ==
    /\ dtor = "alive"
    /\ InCall = {}
    /\ stopped' = AfterStop(stopped)
    /\ dtor' = "joining"
    /\ UNCHANGED <<overwritten, now, timers, io_service_thread_, exitWhy, cerr, escaped,
                   faults, crashed>>

\* ~jthread: join() returns once Service() has returned
\* ~Scheduler when io_service_.stop() throws: the catch of lines 66-70 logs
\* it; the stopped flag has been set or not, as far as stop() got
DestructorStopFails ==
    /\ dtor = "alive"
    /\ InCall = {}
    /\ faults < MaxFaults
    /\ faults' = faults + 1
    /\ \E done \in BOOLEAN : stopped' = (stopped \/ done)
    /\ cerr' = Append(cerr, [msg |-> "stopping", id |-> 0])
    /\ dtor' = "joining"
    /\ Touch
    /\ UNCHANGED <<overwritten, now, timers, io_service_thread_, exitWhy, escaped>>

JoinedWithoutWaiting == TRUE

\* ~jthread joins: it returns once Service() has returned
Joined == io_service_thread_ = "exited"

JoinThread ==
    /\ dtor = "joining"
    /\ Joined
    /\ dtor' = "joined"
    /\ UNCHANGED <<overwritten, now, timers, stopped, io_service_thread_, exitWhy, cerr,
                   escaped, faults, crashed>>

\* ~work, then ~io_service: handlers still queued are destroyed, not invoked
Abandon(tm) == IF tm.state = "Pending" THEN [tm EXCEPT !.state = "Abandoned"] ELSE tm

DestroyMembers ==
    /\ dtor = "joined"
    /\ dtor' = "destroyed"
    /\ timers' = [i \in DOMAIN timers |-> Abandon(timers[i])]
    /\ UNCHANGED <<overwritten, now, stopped, io_service_thread_, exitWhy, cerr, escaped,
                   faults, crashed>>

\* ---- time -----------------------------------------------------------------
Tick ==
    /\ now < MaxTime
    /\ now' = now + 1
    /\ UNCHANGED <<overwritten, timers, stopped, io_service_thread_, exitWhy, dtor, cerr,
                   escaped, faults, crashed>>

\* a client thread assigns to the variables it passed to its call, which has
\* returned and whose timer has not fired yet
CallerOverwrites ==
    /\ \E i \in Pending :
          /\ timers[i].by \in Clients \ overwritten
          /\ overwritten' = overwritten \cup {timers[i].by}
    /\ UNCHANGED <<now, timers, stopped, io_service_thread_, exitWhy, dtor,
                   cerr, escaped, faults, crashed>>

\* ---- the steps of the reactor thread, for any timer ----------------------
Arming         == \E i \in DOMAIN timers : AsyncWait(i)
ArmingFailure  == \E i \in DOMAIN timers : AsyncWaitFails(i)
Expiration     == \E i \in DOMAIN timers : Expire(i)
WaitFailure    == \E i \in DOMAIN timers : WaitError(i)
ReArm          == \E i \in DOMAIN timers : OnTimerReArm(i)
ReArmFailure   == \E i \in DOMAIN timers : OnTimerReArmFails(i)
CallbackReturn == \E i \in DOMAIN timers : OnTimerReturn(i)
CallbackThrow  == \E i \in DOMAIN timers : OnTimerThrows(i)

Next ==
    \/ Service
    \/ RunReturns
    \/ ScheduleTimer
    \/ Arming
    \/ Expiration
    \/ ReArm
    \/ CallbackReturn
    \/ CallbackThrow
    \/ Destructor
    \/ JoinThread
    \/ DestroyMembers
    \/ Tick

\* the program with a runtime that does not fail
Spec == Init /\ [][Next]_vars

\* the thread is scheduled, callbacks run to their end, the destructor proceeds
Fairness ==
    /\ WF_vars(Service)
    /\ WF_vars(RunReturns)
    /\ WF_vars(Arming)
    /\ WF_vars(ReArm)
    /\ WF_vars(CallbackReturn)
    /\ WF_vars(CallbackThrow)
    /\ WF_vars(JoinThread)
    /\ WF_vars(DestroyMembers)

FairSpec == Spec /\ Fairness

\* the program with a runtime that may fail to create, arm or complete a wait
NextFault ==
    \/ Next
    \/ ScheduleTimerFails
    \/ DestructorStopFails
    \/ ArmingFailure
    \/ ReArmFailure
    \/ WaitFailure

FaultSpec == Init /\ [][NextFault]_vars

FairFaultSpec == FaultSpec /\ Fairness

\* the program with callers that reuse their variables
NextArgs == Next \/ CallerOverwrites

ArgSpec == Init /\ [][NextArgs]_vars

TypeOK ==
    /\ now \in 0..MaxTime
    /\ stopped \in BOOLEAN
    /\ io_service_thread_ \in {"starting", "run", "exited"}
    /\ dtor \in {"alive", "joining", "joined", "destroyed"}
    /\ \A i \in DOMAIN timers : (timers[i].parent = 0) = (timers[i].by \in Clients)

\* ---- chains of re-armed timers -------------------------------------------
RECURSIVE Root(_)
Root(i) == IF timers[i].parent = 0 THEN i ELSE Root(timers[i].parent)

Chain(r) == {i \in DOMAIN timers : Root(i) = r}
Fired(i) == timers[i].calls > 0
Returned(i) == Fired(i) /\ timers[i].pc = "done"
Children(i) == {j \in DOMAIN timers : timers[j].parent = i}
DemoRoots == {r \in DOMAIN timers : timers[r].parent = 0 /\ timers[r].kind = "ModelOnTimer"}

\* ---- C1 -------------------------------------------------------------------
\* C1: the action bound by one ScheduleTimer call is invoked at most once,
\* whatever schedules, expirations, re-arms and destruction happen.
AtMostOnce == \A i \in DOMAIN timers : timers[i].calls <= 1

\* a re-armed timer has fired after the timer that armed it
AtMostOnceWitness ==
    \E i \in DOMAIN timers :
        /\ timers[i].parent # 0
        /\ timers[i].calls = 1
        /\ timers[i].pc = "done"

\* ---- C2 -------------------------------------------------------------------
\* C2: a timer scheduled at time t with delay d never has its action invoked
\* before t + d, re-armed timers and timers scheduled during a callback included.
NeverEarly ==
    \A i \in DOMAIN timers :
        Fired(i) => timers[i].firedAt >= timers[i].sched + timers[i].dur

\* a timer with a positive delay, armed while a callback ran, has fired
NeverEarlyWitness ==
    \E i \in DOMAIN timers :
        /\ Fired(i)
        /\ timers[i].dur > 0
        /\ \E j \in DOMAIN timers :
             /\ j # i
             /\ Fired(j)
             /\ timers[j].firedAt <= timers[i].sched
             /\ timers[i].parent = j

\* ---- C3 -------------------------------------------------------------------
\* C3: at most one expiration action of the instance is running in any state.
Serialized == Cardinality(Running) <= 1

\* one action is running while another timer has already expired
SerializedWitness ==
    \E i \in Running : \E j \in Pending : now >= timers[j].expiry

GracefulShutdown ==
    dtor = "destroyed" => \A i \in DOMAIN timers : Fired(i)

\* ---- C6 -------------------------------------------------------------------
\* C6: no ScheduleTimer call ends with an exception reaching its caller.
NoExceptionEscapes == escaped = 0

\* ---- C7 -------------------------------------------------------------------
\* C7: an exception raised in the reactor loop does not terminate the reactor:
\* while the scheduler is alive, the timers that are pending are still serviced
\* by a running reactor.
ReactorSurvivesException ==
    (dtor = "alive" /\ Pending # {}) => io_service_thread_ # "exited"

\* ---- C8 -------------------------------------------------------------------
\* C8: every timer armed by a callback under its own identifier fires exactly
\* once, at least the interval after the firing that armed it, unless the
\* scheduler is destroyed; the re-entrant call is never blocked.
SelfReArmFires ==
    /\ \A i \in DOMAIN timers :
         timers[i].parent # 0 =>
           /\ timers[i].id = timers[timers[i].parent].id
           /\ timers[i].calls <= 1
           /\ Fired(i) =>
                timers[i].firedAt >= timers[timers[i].parent].firedAt + timers[i].dur
           /\ (timers[i].state = "Pending" /\ dtor = "alive") =>
                io_service_thread_ # "exited"
    /\ \A i \in Running :
         (timers[i].pc = "body" /\ ReArms(timers[i])) => ENABLED OnTimerReArm(i)

\* ---- C9 -------------------------------------------------------------------
\* C9 as stated: once the chain started with counter N has come to its end,
\* exactly N firings have occurred.
DemoFiresNTimes ==
    \A r \in DemoRoots :
        (\E i \in Chain(r) : Returned(i) /\ ~ReArms(timers[i])) =>
            Cardinality({i \in Chain(r) : Fired(i)}) = ToUint8(timers[r].n)

\* C9 as amended: the chain started with counter N is invoked with the
\* counters N, N-1, ..., 0: every invocation with a counter above 0 arms
\* exactly one further timer with the counter lowered by one, the invocation
\* with counter 0 arms none and is the (N+1)-th.
DemoFiresNPlusOneTimes ==
    \A r \in DemoRoots :
        /\ Cardinality({i \in Chain(r) : Fired(i)}) <= ToUint8(timers[r].n) + 1
        /\ \A i \in Chain(r) :
             /\ Returned(i) /\ ToUint8(timers[i].n) > 0 =>
                  /\ Cardinality(Children(i)) = 1
                  /\ \A j \in Children(i) : timers[j].n = ToUint8(timers[i].n) - 1
             /\ Returned(i) /\ ToUint8(timers[i].n) = 0 =>
                  /\ Children(i) = {}
                  /\ Cardinality({j \in Chain(r) : Fired(j)}) = ToUint8(timers[r].n) + 1
                  /\ \A j \in Chain(r) : timers[j].state # "Pending"

\* a chain started with a counter above 0 has run to its end
DemoWitness ==
    \E r \in DemoRoots :
        /\ ToUint8(timers[r].n) > 0
        /\ \E i \in Chain(r) : Returned(i) /\ ToUint8(timers[i].n) = 0

\* ---- C10 ------------------------------------------------------------------
\* C10: with no timer scheduled, the destruction always comes to its end,
\* also when stop() is called before the thread has entered run(), and
\* nothing is written to the diagnostic sink.
EmptyDestructionTerminates ==
    /\ [](timers = <<>> => cerr = <<>>)
    /\ ((dtor = "joining" /\ timers = <<>>) ~> (dtor = "destroyed"))

\* destroyed with no timer, the thread having found the io_service stopped
EmptyDestructionWitness ==
    /\ dtor = "destroyed"
    /\ timers = <<>>
    /\ exitWhy = "stopped_before_run"

\* ---- C11 ------------------------------------------------------------------
\* C11: when io_service_.stop() raises during destruction the failure is
\* logged and the destructor still completes: the join of the background
\* thread returns and the members are destroyed.
StopFailed == \E k \in DOMAIN cerr : cerr[k].msg = "stopping"

StopFailureStillCompletes == (dtor = "joining" /\ StopFailed) ~> (dtor = "destroyed")

\* ---- C12 ------------------------------------------------------------------
\* C12: once the background thread is joined, and so when the members are
\* destroyed and the destruction is over, the thread has exited and no
\* action is executing; the thread never touches destroyed runtime state.
JoinedBeforeDestroyed ==
    /\ dtor \in {"joined", "destroyed"} =>
          (io_service_thread_ = "exited" /\ Running = {})
    /\ ~crashed

\* destruction is over after the thread ran an action and left run() on stop
JoinedBeforeDestroyedWitness ==
    /\ dtor = "destroyed"
    /\ exitWhy = "stopped"
    /\ \E i \in DOMAIN timers : Returned(i)

\* ---- C13 ------------------------------------------------------------------
\* the entries of the error log with one message and one timer id
LogCount(m, id) ==
    Cardinality({k \in DOMAIN cerr : cerr[k].msg = m /\ cerr[k].id = id})

WaitsEnded(st, id) ==
    Cardinality({j \in DOMAIN timers : timers[j].state = st /\ timers[j].id = id})

\* C13: a timer whose wait could not be armed (Dropped) or whose wait
\* completed with an error (Failed) never has its action invoked, and each
\* such failure is in the error log with the timer's id.
FailedWaitNeverFires ==
    \A i \in DOMAIN timers :
        /\ timers[i].state \in {"Dropped", "Failed"} => timers[i].calls = 0
        /\ timers[i].state = "Dropped" =>
              LogCount("scheduling", timers[i].id) = WaitsEnded("Dropped", timers[i].id)
        /\ timers[i].state = "Failed" =>
              LogCount("waiting", timers[i].id) = WaitsEnded("Failed", timers[i].id)

\* a wait could not be armed under an id whose other timer has fired
FailedWaitNeverFiresWitness ==
    \E i, j \in DOMAIN timers :
        /\ timers[i].state = "Dropped"
        /\ Fired(j)
        /\ timers[j].id = timers[i].id

\* ---- C14 ------------------------------------------------------------------
\* C14: an armed timer leaves Pending only for Fired or Failed: no step takes
\* a pending timer to any other state.
OnlyFiredOrFailed ==
    [][\A i \in DOMAIN timers :
          timers[i].state = "Pending" =>
              timers'[i].state \in {"Pending", "Fired", "Failed"}]_vars

\* ---- C15 ------------------------------------------------------------------
\* the action of timer j is invoked in this step
Invoked(j) == timers[j].calls = 0 /\ timers'[j].calls = 1

\* the wait of timer i was registered (the call passed line 91) before the
\* expiry of timer j
ArmedBeforeExpiry(i, j) ==
    /\ timers[i].state \notin {"Created", "Dropped"}
    /\ timers[i].dueAt < timers[j].expiry

\* C15: when the action of a timer is invoked, the action of every timer of
\* the scheduler with a strictly earlier expiry has been invoked and has
\* finished.
EarlierExpiryFirst ==
    [][\A j \in DOMAIN timers :
          Invoked(j) =>
              \A i \in DOMAIN timers :
                  timers[i].expiry < timers[j].expiry => Returned(i)]_vars

\* C15 (amended): the same for every timer with a strictly earlier expiry
\* whose wait was registered before the later timer's expiry.
ArmedEarlierExpiryFirst ==
    [][\A j \in DOMAIN timers :
          Invoked(j) =>
              \A i \in DOMAIN timers :
                  (ArmedBeforeExpiry(i, j) /\ timers[i].expiry < timers[j].expiry)
                      => Returned(i)]_vars

\* a timer scheduled second with the earlier expiry has fired and finished
\* first
ArmedEarlierExpiryFirstWitness ==
    \E i, j \in DOMAIN timers :
        /\ j < i
        /\ timers[i].expiry < timers[j].expiry
        /\ Returned(i) /\ Fired(j)
        /\ ArmedBeforeExpiry(i, j)

\* ---- C16 ------------------------------------------------------------------
\* C16: while the scheduler is alive, in any period with no pending timer
\* and no running action the reactor loop has not exited, so that a timer
\* scheduled afterwards is serviced.
IdleLoopStaysAlive ==
    (dtor = "alive" /\ Pending = {} /\ Running = {}) => io_service_thread_ # "exited"

\* ---- C17 ------------------------------------------------------------------
\* what one call of ScheduleTimer was given, and by which thread
Call(tm) ==
    [by |-> tm.by, id |-> tm.id, dur |-> tm.dur, kind |-> tm.kind, n |-> tm.n,
     parent |-> tm.parent, sched |-> tm.sched, expiry |-> tm.expiry]

\* C17: for every interleaving of the calls of the client threads and of the
\* background thread, a step adds at most one timer, which is the timer of
\* one call; no step removes or replaces the timer of another call, a timer
\* under registration becomes pending and nothing else, no client thread has
\* two timers for its one call, and an action is invoked only in a step of
\* the running background thread, which is no step of any call.
ConcurrentCallsKeepOwnTimers ==
    [][/\ Len(timers') \in {Len(timers), Len(timers) + 1}
       /\ \A i \in DOMAIN timers : Call(timers'[i]) = Call(timers[i])
       /\ \A i \in InCall : timers'[i].state \in {"Created", "Pending"}
       /\ \A c \in Clients :
             Cardinality({i \in DOMAIN timers' : timers'[i].by = c}) <= 1
       /\ \A j \in DOMAIN timers :
             Invoked(j) =>
                 /\ io_service_thread_ = "run"
                 /\ Len(timers') = Len(timers)
                 /\ \A i \in InCall : timers'[i] = timers[i]]_vars

\* a callback has re-armed its timer while a client thread was inside its
\* own call, and both clients have called
ConcurrentCallsWitness ==
    /\ \A c \in Clients : HasCalled(c)
    /\ \E i \in InCall, k \in DOMAIN timers :
          /\ timers[k].parent # 0
          /\ i < k
          /\ Fired(k)

ScheduledUnder(id) ==
    \/ \E k \in DOMAIN timers' \ DOMAIN timers : timers'[k].id = id
    \/ \E k \in InCall : timers[k].id = id /\ timers'[k].state = "Pending"

\* C19: a step that schedules a timer under the id of a pending timer
\* leaves the pending timer as it is (not replaced, not cancelled, its
\* expiry unchanged); timers under one id fire one by one, each at most
\* once and none before its own delay has passed.
IdsAreNotKeys ==
    [][/\ \A i \in Pending : ScheduledUnder(timers[i].id) => timers'[i] = timers[i]
       /\ \A i, j \in DOMAIN timers :
             (i # j /\ timers[i].id = timers[j].id /\ Fired(i)) =>
                 /\ timers[i].calls = 1
                 /\ timers[i].firedAt >= timers[i].sched + timers[i].dur
                 /\ ~(Invoked(i) /\ Invoked(j))]_vars

\* two calls of client threads under one id, with different delays, the
\* second made while the first timer was pending: both timers have fired
IdsAreNotKeysWitness ==
    \E i, j \in DOMAIN timers :
        /\ i < j
        /\ timers[i].id = timers[j].id
        /\ timers[i].by \in Clients /\ timers[j].by \in Clients
        /\ timers[i].dur # timers[j].dur
        /\ timers[j].sched < timers[i].firedAt
        /\ Fired(i) /\ Fired(j)

====
